---- MODULE Spec2Model ----
(***************************************************************************)
(* A model of the RegExFromScratch pipeline:                               *)
(*   parse_regex (parser.py)  ->  build_nfa (regex_engine.py, nfa.py)      *)
(*   ->  nfa_to_dfa (dfa.py)  ->  match / findall / search / split / sub   *)
(* Python strings are sequences of one-character strings; indices in the   *)
(* state (idx, last_end, start, k) are the 0-based Python values.          *)
(***************************************************************************)
EXTENDS Integers, Sequences, FiniteSets, TLC

VARIABLES
    pattern, string, alphabet, repl,   \* the arguments of the call
    pc,                                \* where the call is
    tokens, idx, stack, arena, nfa,    \* build_nfa: token list, iterator, fragments
    err,                               \* the exception raised, or "none"
    call,                              \* the facade function called
    i, j,                              \* findall / search: the loop variables
    matches,                           \* findall's list
    k, last_end, start, acc,           \* split / sub: position in matches, locals
    result                             \* the value returned

vars == <<pattern, string, alphabet, repl, pc, tokens, idx, stack, arena, nfa,
          err, call, i, j, matches, k, last_end, start, acc, result>>

\* ------------------------------------------------------------------ bounds
\* longest pattern of the compile specification
MaxPatLen == 3
\* longest generated pattern of the match specification
MaxMatchPatLen == 2
\* longest input string of the match specification
MaxStrLen == 3
\* longest pattern of the facade specification
MaxFacadePatLen == 2
\* longest input string of the facade specification
MaxFacadeStrLen == 4

\* ------------------------------------------------------------- characters
\* the epsilon symbol of dfa.py / nfa.py
EPS == "eps"
ESC == "\\"

AllSeqs(S, n) == UNION {[1..m -> S] : m \in 0..n}

Last(s) == s[Len(s)]
Front(s) == SubSeq(s, 1, Len(s) - 1)

RECURSIVE Reverse(_)
Reverse(s) == IF s = <<>> THEN <<>> ELSE <<Last(s)>> \o Reverse(Front(s))

\* ------------------------------------------------------------------ parser
operators == {"|", "*", "+", "?", "(", ")", "[", "]", "^", "$"}

precedence(operator) ==
    CASE operator = "|" -> 1
      [] operator = "+" -> 2
      [] operator = "?" -> 3
      [] operator = "*" -> 4
      [] operator = "^" -> 5
      [] operator = "$" -> 6
      [] operator = "." -> 7
      [] operator = "(" -> 8
      [] operator = "[" -> 8
      [] OTHER -> 0

\* while operators_stack and operators_stack[-1] != marker: output.append(pop())
RECURSIVE PopUntil(_, _, _)
PopUntil(output, ops, marker) ==
    IF ops # <<>> /\ Last(ops) # marker
    THEN PopUntil(Append(output, Last(ops)), Front(ops), marker)
    ELSE [output |-> output, ops |-> ops]

\* while operators_stack and precedence(operators_stack[-1]) >= precedence(char)
RECURSIVE PopPrec(_, _, _)
PopPrec(output, ops, char) ==
    IF ops # <<>> /\ precedence(Last(ops)) >= precedence(char)
    THEN PopPrec(Append(output, Last(ops)), Front(ops), char)
    ELSE [output |-> output, ops |-> ops]

\* the closing of a group: pop-and-emit down to the marker, then pop the
\* marker itself; list.pop() on an empty list raises IndexError
CloseGroup(st, marker) ==
    LET p == PopUntil(st.output, st.ops, marker) IN
    IF p.ops = <<>>
    THEN [st EXCEPT !.output = p.output, !.ops = p.ops, !.err = "IndexError"]
    ELSE [st EXCEPT !.output = p.output, !.ops = Front(p.ops)]

\* one iteration of "for char in pattern"
ParseChar(st, char) ==
    IF st.escaped THEN
        [st EXCEPT !.output = Append(st.output, char), !.escaped = FALSE]
    ELSE IF char = ESC THEN
        [st EXCEPT !.escaped = TRUE]
    ELSE IF char = "[" THEN
        [st EXCEPT !.char_set = TRUE, !.output = Append(st.output, char)]
    ELSE IF char = "]" THEN
        [st EXCEPT !.char_set = FALSE, !.output = Append(st.output, char)]
    ELSE IF st.char_set THEN
        [st EXCEPT !.output = Append(st.output, char)]
    ELSE IF char \in operators THEN
        IF char = "(" \/ char = "[" THEN
            [st EXCEPT !.ops = Append(st.ops, char)]
        ELSE IF char = ")" THEN
            CloseGroup(st, "(")
        ELSE IF char = "]" THEN
            CloseGroup(st, "[")
        ELSE
            LET p == PopPrec(st.output, st.ops, char) IN
            [st EXCEPT !.output = p.output, !.ops = Append(p.ops, char)]
    ELSE
        [st EXCEPT !.output = Append(st.output, char)]

RECURSIVE ParseLoop(_, _, _)
ParseLoop(st, pat, pos) ==
    IF st.err # "none" \/ pos > Len(pat) THEN st
    ELSE ParseLoop(ParseChar(st, pat[pos]), pat, pos + 1)

\* parse_regex(pattern): [err, tokens]
parse_regex(pat) ==
    LET st == ParseLoop([output |-> <<>>, ops |-> <<>>, escaped |-> FALSE,
                         char_set |-> FALSE, err |-> "none"], pat, 1) IN
    IF st.err # "none"
    THEN [err |-> st.err, tokens |-> <<>>]
    ELSE [err |-> "none", tokens |-> st.output \o Reverse(st.ops)]

\* ------------------------------------------------------- states and NFAs
\* The arena of State objects: n states 1..n, the set of those whose
\* is_final flag is set, and the transitions as triples <<src, symbol, dst>>.
\* A symbol (a key of State.transitions) is a Python string: a sequence of
\* characters, of length 1 for a literal or an alphabet character.
EmptyArena == [n |-> 0, final |-> {}, trans |-> {}]

\* State(is_final): a fresh state, the last of the arena
State(a, is_final) ==
    [a EXCEPT !.n = a.n + 1,
              !.final = IF is_final THEN a.final \cup {a.n + 1} ELSE a.final]

\* s.transitions[sym] = dsts  (an assignment: it replaces the key's list)
SetTrans(a, s, sym, dsts) ==
    [a EXCEPT !.trans = {t \in a.trans : ~(t[1] = s /\ t[2] = sym)}
                        \cup {<<s, sym, d>> : d \in dsts}]

\* s.is_final = False
Unmark(a, s) == [a EXCEPT !.final = a.final \ {s}]

NFA(start_state, accept_state) ==
    [start_state |-> start_state, accept_state |-> accept_state]

create_basic_nfa(a, sym) ==
    LET a1 == State(a, FALSE)
        a2 == State(a1, TRUE)
    IN [a |-> SetTrans(a2, a1.n, sym, {a2.n}), nfa |-> NFA(a1.n, a2.n)]

concatenate_nfa(a, nfa1, nfa2) ==
    LET a1 == Unmark(a, nfa1.accept_state)
    IN [a |-> SetTrans(a1, nfa1.accept_state, <<EPS>>, {nfa2.start_state}),
        nfa |-> NFA(nfa1.start_state, nfa2.accept_state)]

alternate_nfa(a, nfa1, nfa2) ==
    LET a1 == State(a, FALSE)
        a2 == State(a1, TRUE)
        a3 == SetTrans(a2, a1.n, <<EPS>>, {nfa1.start_state, nfa2.start_state})
        a4 == Unmark(Unmark(a3, nfa1.accept_state), nfa2.accept_state)
        a5 == SetTrans(a4, nfa1.accept_state, <<EPS>>, {a2.n})
    IN [a |-> SetTrans(a5, nfa2.accept_state, <<EPS>>, {a2.n}),
        nfa |-> NFA(a1.n, a2.n)]

kleene_star_nfa(a, f) ==
    LET a1 == State(a, FALSE)
        a2 == State(a1, TRUE)
        a3 == SetTrans(a2, a1.n, <<EPS>>, {f.start_state, a2.n})
        a4 == Unmark(a3, f.accept_state)
    IN [a |-> SetTrans(a4, f.accept_state, <<EPS>>, {f.start_state, a2.n}),
        nfa |-> NFA(a1.n, a2.n)]

one_or_more_nfa_noloop(a, f) ==
    LET a1 == State(a, FALSE)
        a2 == State(a1, TRUE)
        a3 == SetTrans(a2, a1.n, <<EPS>>, {f.start_state})
        a4 == Unmark(a3, f.accept_state)
    IN [a |-> SetTrans(a4, f.accept_state, <<EPS>>, {a2.n}),
        nfa |-> NFA(a1.n, a2.n)]

one_or_more_nfa(a, f) ==
    LET a1 == State(a, FALSE)
        a2 == State(a1, TRUE)
        a3 == SetTrans(a2, a1.n, <<EPS>>, {f.start_state})
        a4 == Unmark(a3, f.accept_state)
    IN [a |-> SetTrans(a4, f.accept_state, <<EPS>>, {f.start_state, a2.n}),
        nfa |-> NFA(a1.n, a2.n)]

zero_or_one_nfa(a, f) ==
    LET a1 == State(a, FALSE)
        a2 == State(a1, TRUE)
        a3 == SetTrans(a2, a1.n, <<EPS>>, {f.start_state, a2.n})
        a4 == Unmark(a3, f.accept_state)
    IN [a |-> SetTrans(a4, f.accept_state, <<EPS>>, {a2.n}),
        nfa |-> NFA(a1.n, a2.n)]

\* the keys of s.transitions
Keys(a, s) == {t[2] : t \in {u \in a.trans : u[1] = s}}

negate_nfa(a, f, alph) ==
    LET a1 == State(a, FALSE)
        a2 == State(a1, TRUE)
        add == {c \in alph : <<c>> \notin Keys(a, f.start_state)}
    IN [a |-> [a2 EXCEPT !.trans = a2.trans \cup {<<a1.n, <<c>>, a2.n>> : c \in add}],
        nfa |-> NFA(a1.n, a2.n)]

\* --------------------------------------------------------------- build_nfa
\* the tokens build_nfa does not turn into a basic fragment
BuildOps == {"|", "*", "+", "?", "^", "$", ".", "[", "]"}

\* The state of build_nfa's loop: the token list (the '[' branch pops from
\* its front while the loop iterates over it), the iterator's index (0-based),
\* the fragment stack (top last), the arena, and the exception raised.
Raise(b, e) == [b EXCEPT !.err = e]

Push(b, r) == [b EXCEPT !.arena = r.a, !.stack = Append(b.stack, r.nfa)]

\* pop one fragment and push op(fragment)
Unary(b, r) == [b EXCEPT !.arena = r.a, !.stack = Append(Front(b.stack), r.nfa)]

\* pop two fragments and push op(nfa1, nfa2)
Binary(b, r) ==
    [b EXCEPT !.arena = r.a, !.stack = Append(Front(Front(b.stack)), r.nfa)]

\* the index (1-based) of the first "]" of toks, or Len(toks) + 1
FirstClose(toks) ==
    IF \E x \in 1..Len(toks) : toks[x] = "]"
    THEN CHOOSE x \in 1..Len(toks) :
            toks[x] = "]" /\ \A y \in 1..(x - 1) : toks[y] # "]"
    ELSE Len(toks) + 1

\* the body of "for char in parsed_regex" for the token at the iterator's index
BuildTok(b, alph) ==
    LET char == b.tokens[b.idx + 1]
        depth == Len(b.stack)
        top == b.stack[depth]
        below == b.stack[depth - 1]
        nb == [b EXCEPT !.idx = b.idx + 1]
    IN
    IF char \notin BuildOps THEN
        Push(nb, create_basic_nfa(b.arena, <<char>>))
    ELSE IF char = "." THEN
        IF depth < 2 THEN Raise(nb, "ValueError")
        ELSE Binary(nb, concatenate_nfa(b.arena, below, top))
    ELSE IF char = "|" THEN
        IF depth < 2 THEN Raise(nb, "ValueError")
        ELSE Binary(nb, alternate_nfa(b.arena, below, top))
    ELSE IF char = "*" THEN
        IF depth < 1 THEN Raise(nb, "ValueError")
        ELSE Unary(nb, kleene_star_nfa(b.arena, top))
    ELSE IF char = "+" THEN
        IF depth < 1 THEN Raise(nb, "ValueError")
        ELSE Unary(nb, one_or_more_nfa(b.arena, top))
    ELSE IF char = "?" THEN
        IF depth < 1 THEN Raise(nb, "ValueError")
        ELSE Unary(nb, zero_or_one_nfa(b.arena, top))
    ELSE IF char = "^" THEN
        IF depth = 0 THEN
            \* start_state = State(); nfa = stack.pop()  -- on an empty list
            Raise([nb EXCEPT !.arena = State(b.arena, FALSE)], "IndexError")
        ELSE IF depth < 1 THEN Raise(nb, "ValueError")
        ELSE Unary(nb, negate_nfa(b.arena, top, alph))
    ELSE IF char = "$" THEN
        IF depth = 1 THEN
            LET a1 == State(b.arena, TRUE)
                a2 == SetTrans(a1, top.accept_state, <<EPS>>, {a1.n})
                a3 == Unmark(a2, top.accept_state)
            IN [nb EXCEPT !.arena = a3,
                          !.stack = <<NFA(top.start_state, a1.n)>>]
        ELSE Raise(nb, "ValueError")
    ELSE IF char = "[" THEN
        LET c == FirstClose(b.tokens)
            char_set == SubSeq(b.tokens, 1, c - 1)
            rest == SubSeq(b.tokens, c + 1, Len(b.tokens))
        IN Push([nb EXCEPT !.tokens = rest], create_basic_nfa(b.arena, char_set))
    ELSE
        \* "]" is in the operator set and no branch handles it
        nb

\* the lines after the loop, returning the bottom fragment instead of the top
BuildEndBottom(b) ==
    IF b.stack = <<>>
    THEN [err |-> "ValueError", arena |-> b.arena, nfa |-> NFA(0, 0), stack |-> b.stack]
    ELSE [err |-> "none", arena |-> b.arena, nfa |-> b.stack[1],
          stack |-> SubSeq(b.stack, 2, Len(b.stack))]

\* the lines after the loop: [err, arena, nfa, stack]
BuildEnd(b) ==
    IF b.stack = <<>>
    THEN [err |-> "ValueError", arena |-> b.arena, nfa |-> NFA(0, 0), stack |-> b.stack]
    ELSE [err |-> "none", arena |-> b.arena, nfa |-> Last(b.stack),
          stack |-> Front(b.stack)]

RECURSIVE BuildLoop(_, _)
BuildLoop(b, alph) ==
    IF b.err # "none" \/ b.idx >= Len(b.tokens) THEN b
    ELSE BuildLoop(BuildTok(b, alph), alph)

\* build_nfa(parsed_regex, alphabet): [err, arena, nfa, stack]
build_nfa(parsed_regex, alph) ==
    LET b == BuildLoop([tokens |-> parsed_regex, idx |-> 0, stack |-> <<>>,
                        arena |-> EmptyArena, err |-> "none"], alph) IN
    IF b.err # "none"
    THEN [err |-> b.err, arena |-> b.arena, nfa |-> NFA(0, 0), stack |-> b.stack]
    ELSE BuildEnd(b)

regex_to_nfa(pat, alph) ==
    LET p == parse_regex(pat) IN
    IF p.err # "none"
    THEN [err |-> p.err, arena |-> EmptyArena, nfa |-> NFA(0, 0), stack |-> <<>>]
    ELSE build_nfa(p.tokens, alph)

\* --------------------------------------------------------------------- dfa
RECURSIVE SetToSeq(_)
SetToSeq(S) ==
    IF S = {} THEN <<>>
    ELSE LET x == CHOOSE y \in S : TRUE IN <<x>> \o SetToSeq(S \ {x})

\* the while loop of epsilon_closure: pop a state, add its unseen epsilon
\* successors to the closure and to the stack
RECURSIVE ClosureLoop(_, _, _)
ClosureLoop(a, stk, closure) ==
    IF stk = <<>> THEN closure
    ELSE LET s == Last(stk)
             new == {t[3] : t \in {u \in a.trans : u[1] = s /\ u[2] = <<EPS>>}}
                    \ closure
         IN ClosureLoop(a, Front(stk) \o SetToSeq(new), closure \cup new)

epsilon_closure(a, states) == ClosureLoop(a, SetToSeq(states), states)

move(a, states, char) ==
    {t[3] : t \in {u \in a.trans : u[1] \in states /\ u[2] = <<char>>}}

\* The DFA under construction: dfa_states' keys (sets of NFA states), the keys
\* whose State has is_final set, and the transitions <<key, char, key>>.
\* "for char in alphabet" of nfa_to_dfa, over the characters still to visit
RECURSIVE CharLoop(_, _, _, _, _)
CharLoop(a, d, unmarked, current_closure, chars) ==
    IF chars = {} THEN [d |-> d, unmarked |-> unmarked]
    ELSE
      LET char == CHOOSE c \in chars : TRUE
          rest == chars \ {char}
          next_closure == epsilon_closure(a, move(a, current_closure, char))
          fresh == next_closure \notin d.keys
          d1 == IF fresh
                THEN [d EXCEPT !.keys = d.keys \cup {next_closure},
                               !.final = IF next_closure \cap a.final # {}
                                         THEN d.final \cup {next_closure}
                                         ELSE d.final]
                ELSE d
          d2 == [d1 EXCEPT !.trans =
                    {t \in d1.trans : ~(t[1] = current_closure /\ t[2] = char)}
                    \cup {<<current_closure, char, next_closure>>}]
      IN
      IF char = EPS THEN CharLoop(a, d, unmarked, current_closure, rest)
      ELSE IF next_closure = {} THEN CharLoop(a, d, unmarked, current_closure, rest)
      ELSE CharLoop(a, d2, IF fresh THEN Append(unmarked, next_closure) ELSE unmarked,
                    current_closure, rest)

\* "while unmarked_states" of nfa_to_dfa
RECURSIVE SubsetLoop(_, _, _, _)
SubsetLoop(a, d, unmarked, alph) ==
    IF unmarked = <<>> THEN d
    ELSE LET current_closure == epsilon_closure(a, Last(unmarked))
             r == CharLoop(a, d, Front(unmarked), current_closure, alph)
         IN SubsetLoop(a, r.d, r.unmarked, alph)

\* dfa_states = {frozenset(initial_closure): State()}: is_final keeps its default
InitialFinal(a, initial_closure) == {}

\* the alphabet nfa_to_dfa would range over if it took the NFA's own symbols too
DfaCharsAll(a, alph) == alph \cup {t[2][1] : t \in {u \in a.trans : Len(u[2]) = 1}}

\* for char in alphabet
DfaChars(a, alph) == alph

nfa_to_dfa(a, f, alph) ==
    LET initial_closure == epsilon_closure(a, {f.start_state}) IN
    SubsetLoop(a, [start |-> initial_closure, keys |-> {initial_closure},
                   final |-> InitialFinal(a, initial_closure), trans |-> {}],
               <<initial_closure>>, DfaChars(a, alph))

\* ------------------------------------------------------------ regex_engine
\* the loop of match over the characters of string, from DFA state cur
RECURSIVE Walk(_, _, _, _)
Walk(d, cur, s, pos) ==
    IF pos > Len(s) THEN cur \in d.final
    ELSE IF \E t \in d.trans : t[1] = cur /\ t[2] = s[pos]
         THEN Walk(d, (CHOOSE t \in d.trans : t[1] = cur /\ t[2] = s[pos])[3], s, pos + 1)
         ELSE FALSE

\* match(pattern, string, alphabet): [err, val]
match(pat, s, alph) ==
    LET r == regex_to_nfa(pat, alph) IN
    IF r.err # "none" THEN [err |-> r.err, val |-> FALSE]
    ELSE LET d == nfa_to_dfa(r.arena, r.nfa, alph)
         IN [err |-> "none", val |-> Walk(d, d.start, s, 1)]

\* string[lo:hi] for 0 <= lo and any hi (a negative hi counts from the end)
Slice(s, lo, hi) ==
    LET n == Len(s)
        h == IF hi < 0 THEN (IF hi + n < 0 THEN 0 ELSE hi + n)
             ELSE (IF hi > n THEN n ELSE hi)
    IN SubSeq(s, lo + 1, h)

\* string.find(sub, from): the lowest index >= from where sub occurs, or -1
\* (a negative from counts from the end)
find(s, sub, from) ==
    LET lo == IF from >= 0 THEN from
              ELSE (IF from + Len(s) < 0 THEN 0 ELSE from + Len(s))
        hits == {p \in lo..(Len(s) - Len(sub)) : SubSeq(s, p + 1, p + Len(sub)) = sub}
    IN IF hits = {} THEN 0 - 1
       ELSE CHOOSE p \in hits : \A q \in hits : p <= q

\* for i in range(len(string)): for j in range(i + 1, len(string) + 1):
\* the pair after (ci, cj); the loops are over when the first component
\* reaches len(string)
Advance(s, ci, cj) == IF cj < Len(s) THEN <<ci, cj + 1>> ELSE <<ci + 1, ci + 2>>

\* a search that reports where the match ends
SearchHitEnd(ci, cj) == cj

\* search: return i
SearchHit(ci, cj) == ci

\* the double loop of findall from (ci, cj): [err, val]
RECURSIVE FindallLoop(_, _, _, _, _, _)
FindallLoop(pat, s, alph, ci, cj, ms) ==
    IF ci >= Len(s) THEN [err |-> "none", val |-> ms]
    ELSE LET m == match(pat, Slice(s, ci, cj), alph)
             nx == Advance(s, ci, cj) IN
         IF m.err # "none" THEN [err |-> m.err, val |-> <<>>]
         ELSE FindallLoop(pat, s, alph, nx[1], nx[2],
                          IF m.val THEN Append(ms, Slice(s, ci, cj)) ELSE ms)

findall(pat, s, alph) == FindallLoop(pat, s, alph, 0, 1, <<>>)

\* the double loop of search from (ci, cj): [err, val]
RECURSIVE SearchLoop(_, _, _, _, _)
SearchLoop(pat, s, alph, ci, cj) ==
    IF ci >= Len(s) THEN [err |-> "none", val |-> 0 - 1]
    ELSE LET m == match(pat, Slice(s, ci, cj), alph)
             nx == Advance(s, ci, cj) IN
         IF m.err # "none" THEN [err |-> m.err, val |-> 0 - 1]
         ELSE IF m.val THEN [err |-> "none", val |-> SearchHit(ci, cj)]
         ELSE SearchLoop(pat, s, alph, nx[1], nx[2])

search(pat, s, alph) == SearchLoop(pat, s, alph, 0, 1)

\* last_end = start + len(match) with the match's length forgotten
NextEndStuck(st, m) == st

\* last_end = start + len(match)
NextEnd(st, m) == st + Len(m)

\* ------------------------------------------------------------------ inputs
\* the characters patterns of the compile specification are made of
PatChars == {"a", "b", "|", "*", "+", "?", "(", ")", "[", "]", "^", "$", ".", ESC}

\* the characters generated patterns of the match specification are made of
MatchChars == {"a", "b", "|", "*", "+", "?", "^", "$", "."}

\* the characters patterns of the facade specification are made of
FacadeChars == {"a", "b", "*", "+", "?"}

\* the characters of input strings
StrChars == {"a", "b"}

\* the example patterns of main.py
MainPatterns ==
    { <<"a", "*", "b", "|", "c">>, <<"a", "b">>, <<"a", "|", "b">>, <<"a", "*">>,
      <<"a", "+">>, <<"[", "^", "a", "]">>, <<"^", "a">>, <<"a", "$">>,
      <<"(", "a", "b", ")">>, <<"a", "?">> }

\* balanced groups that hold an operator
GroupPatterns == { <<"(", "a", "|", "b", ")">>, <<"(", "a", "*", ")">> }

\* the alphabets a caller supplies: "b" is outside the first
Alphabets == {{"a"}, {"a", "b"}}

\* the replacement strings given to sub
Repls == {<<>>, <<"x">>, <<"x", "y">>}

NoResult == [err |-> "none", val |-> FALSE]

Idle ==
    /\ pc = "start"
    /\ repl = <<>>
    /\ tokens = <<>> /\ idx = 0 /\ stack = <<>> /\ arena = EmptyArena
    /\ err = "none" /\ nfa = NFA(0, 0)
    /\ call = "none" /\ i = 0 /\ j = 0
    /\ matches = <<>> /\ k = 0 /\ last_end = 0 /\ start = 0 /\ acc = <<>>
    /\ result = NoResult

InitCompile ==
    /\ pattern \in AllSeqs(PatChars, MaxPatLen) \cup MainPatterns \cup GroupPatterns
    /\ string = <<>>
    /\ alphabet \in Alphabets
    /\ Idle

InitMatch ==
    /\ pattern \in MainPatterns \cup AllSeqs(MatchChars, MaxMatchPatLen)
    /\ string \in AllSeqs(StrChars, MaxStrLen)
    /\ alphabet \in Alphabets
    /\ Idle

InitFacade ==
    /\ pattern \in AllSeqs(FacadeChars, MaxFacadePatLen)
    /\ string \in AllSeqs(StrChars, MaxFacadeStrLen)
    /\ alphabet \in Alphabets
    /\ Idle

\* ------------------------------------------------------------------ actions
\* regex_to_nfa, first line: parse_regex(pattern)
Parse ==
    /\ pc = "start"
    /\ \E p \in {parse_regex(pattern)} :
        /\ pc' = IF p.err = "none" THEN "build" ELSE "error"
        /\ err' = p.err
        /\ tokens' = p.tokens
    /\ UNCHANGED <<pattern, string, alphabet, repl, idx, stack, arena, nfa,
                   call, i, j, matches, k, last_end, start, acc, result>>

\* build_nfa: one iteration of the loop over the tokens
BuildStep ==
    /\ pc = "build"
    /\ idx < Len(tokens)
    /\ \E b \in {BuildTok([tokens |-> tokens, idx |-> idx, stack |-> stack,
                           arena |-> arena, err |-> "none"], alphabet)} :
        /\ tokens' = b.tokens
        /\ idx' = b.idx
        /\ stack' = b.stack
        /\ arena' = b.arena
        /\ err' = b.err
        /\ pc' = IF b.err = "none" THEN "build" ELSE "error"
    /\ UNCHANGED <<pattern, string, alphabet, repl, nfa, call, i, j, matches, k,
                   last_end, start, acc, result>>

\* build_nfa: the lines after the loop
BuildFinish ==
    /\ pc = "build"
    /\ idx >= Len(tokens)
    /\ \E r \in {BuildEnd([tokens |-> tokens, idx |-> idx, stack |-> stack,
                           arena |-> arena, err |-> "none"])} :
        /\ err' = r.err
        /\ nfa' = r.nfa
        /\ stack' = r.stack
        /\ pc' = IF r.err = "none" THEN "nfa" ELSE "error"
    /\ UNCHANGED <<pattern, string, alphabet, repl, tokens, idx, arena, call, i,
                   j, matches, k, last_end, start, acc, result>>

\* match(pattern, string, alphabet)
Match ==
    /\ pc = "start"
    /\ \E m \in {match(pattern, string, alphabet)} :
        /\ result' = m
        /\ err' = m.err
        /\ pc' = IF m.err = "none" THEN "done" ELSE "raised"
    /\ call' = "match"
    /\ UNCHANGED <<pattern, string, alphabet, repl, tokens, idx, stack, arena,
                   nfa, i, j, matches, k, last_end, start, acc>>

\* a call of findall, search or split: the loops of findall / search begin
Call ==
    /\ pc = "start"
    /\ call' \in {"findall", "search", "split"}
    /\ pc' = "scan"
    /\ i' = 0 /\ j' = 1
    /\ UNCHANGED <<pattern, string, alphabet, repl, tokens, idx, stack, arena,
                   nfa, err, matches, k, last_end, start, acc, result>>

\* a call of sub, with its replacement
CallSub ==
    /\ pc = "start"
    /\ call' = "sub"
    /\ repl' \in Repls
    /\ pc' = "scan"
    /\ i' = 0 /\ j' = 1
    /\ UNCHANGED <<pattern, string, alphabet, tokens, idx, stack, arena,
                   nfa, err, matches, k, last_end, start, acc, result>>

\* findall (called directly, or by split or sub): one iteration of the inner loop
FindallProbe ==
    /\ pc = "scan"
    /\ call # "search"
    /\ i < Len(string)
    /\ \E m \in {match(pattern, Slice(string, i, j), alphabet)} :
        /\ err' = m.err
        /\ pc' = IF m.err = "none" THEN "scan" ELSE "raised"
        /\ matches' = IF m.err = "none" /\ m.val
                      THEN Append(matches, Slice(string, i, j)) ELSE matches
    /\ i' = Advance(string, i, j)[1]
    /\ j' = Advance(string, i, j)[2]
    /\ UNCHANGED <<pattern, string, alphabet, repl, tokens, idx, stack, arena,
                   nfa, call, k, last_end, start, acc, result>>

\* findall: return matches -- to the caller of findall, or into split / sub,
\* which set last_end = 0 and start their own loop
FindallReturn ==
    /\ pc = "scan"
    /\ call # "search"
    /\ i >= Len(string)
    /\ pc' = IF call = "findall" THEN "done" ELSE "locate"
    /\ result' = IF call = "findall" THEN [err |-> "none", val |-> matches]
                 ELSE result
    /\ UNCHANGED <<pattern, string, alphabet, repl, tokens, idx, stack, arena,
                   nfa, err, call, i, j, matches, k, last_end, start, acc>>

\* search: one iteration of the inner loop
SearchProbe ==
    /\ pc = "scan"
    /\ call = "search"
    /\ i < Len(string)
    /\ \E m \in {match(pattern, Slice(string, i, j), alphabet)} :
        /\ err' = m.err
        /\ pc' = IF m.err # "none" THEN "raised"
                 ELSE IF m.val THEN "done" ELSE "scan"
        /\ result' = IF m.err = "none" /\ m.val
                     THEN [err |-> "none", val |-> SearchHit(i, j)] ELSE result
        /\ i' = IF m.err = "none" /\ m.val THEN i ELSE Advance(string, i, j)[1]
        /\ j' = IF m.err = "none" /\ m.val THEN j ELSE Advance(string, i, j)[2]
    /\ UNCHANGED <<pattern, string, alphabet, repl, tokens, idx, stack, arena,
                   nfa, call, matches, k, last_end, start, acc>>

\* search: return -1
SearchReturn ==
    /\ pc = "scan"
    /\ call = "search"
    /\ i >= Len(string)
    /\ result' = [err |-> "none", val |-> 0 - 1]
    /\ pc' = "done"
    /\ UNCHANGED <<pattern, string, alphabet, repl, tokens, idx, stack, arena,
                   nfa, err, call, i, j, matches, k, last_end, start, acc>>

\* split: one iteration of "for match in matches"
SplitStep ==
    /\ pc = "locate"
    /\ call = "split"
    /\ k < Len(matches)
    /\ \E st \in {find(string, matches[k + 1], last_end)} :
        /\ start' = st
        /\ acc' = Append(acc, Slice(string, last_end, st))
        /\ last_end' = NextEnd(st, matches[k + 1])
    /\ k' = k + 1
    /\ UNCHANGED <<pattern, string, alphabet, repl, pc, tokens, idx, stack,
                   arena, nfa, err, call, i, j, matches, result>>

\* split: parts.append(string[last_end:]); return parts
SplitReturn ==
    /\ pc = "locate"
    /\ call = "split"
    /\ k >= Len(matches)
    /\ result' = [err |-> "none",
                  val |-> Append(acc, Slice(string, last_end, Len(string)))]
    /\ pc' = "done"
    /\ UNCHANGED <<pattern, string, alphabet, repl, tokens, idx, stack, arena,
                   nfa, err, call, i, j, matches, k, last_end, start, acc>>

\* sub: one iteration of "for match in matches"
SubStep ==
    /\ pc = "locate"
    /\ call = "sub"
    /\ k < Len(matches)
    /\ \E st \in {find(string, matches[k + 1], last_end)} :
        /\ start' = st
        /\ acc' = acc \o Slice(string, last_end, st) \o repl
        /\ last_end' = NextEnd(st, matches[k + 1])
    /\ k' = k + 1
    /\ UNCHANGED <<pattern, string, alphabet, repl, pc, tokens, idx, stack,
                   arena, nfa, err, call, i, j, matches, result>>

\* sub: result += string[last_end:]; return result
SubReturn ==
    /\ pc = "locate"
    /\ call = "sub"
    /\ k >= Len(matches)
    /\ result' = [err |-> "none", val |-> acc \o Slice(string, last_end, Len(string))]
    /\ pc' = "done"
    /\ UNCHANGED <<pattern, string, alphabet, repl, tokens, idx, stack, arena,
                   nfa, err, call, i, j, matches, k, last_end, start, acc>>

\* ----------------------------------------------------------- specifications
NextCompile == Parse \/ BuildStep \/ BuildFinish

NextFacade ==
    Call \/ CallSub \/ FindallProbe \/ FindallReturn \/ SearchProbe \/ SearchReturn
    \/ SplitStep \/ SplitReturn \/ SubStep \/ SubReturn

\* regex_to_nfa step by step, over every short pattern
SpecCompile == InitCompile /\ [][NextCompile]_vars

\* whole calls of match
SpecMatch == InitMatch /\ [][Match]_vars

\* calls of findall, search, split and sub, step by step
SpecFacade == InitFacade /\ [][NextFacade]_vars

\* ------------------------------------------------------------------ claims
\* a string made of repetitions of c only (the empty string included)
OnlyChar(s, c) == \A pos \in 1..Len(s) : s[pos] = c

Literals == {"a", "b"}

MatchReturned == call = "match" /\ pc \in {"done", "raised"}

\* C1: for every literal c of the alphabet, match(c*, s, A) is True for the
\* empty string and for every string of one or more repetitions of c.
C1_StarAcceptsAllRepetitions ==
    \A c \in Literals \cap alphabet :
        (MatchReturned /\ pattern = <<c, "*">> /\ OnlyChar(string, c))
            => (pc = "done" /\ result.val = TRUE)

\* whether epsilon_closure({nfa.start_state}) holds a state with is_final set
StartClosureAccepting(pat, alph) ==
    LET r == regex_to_nfa(pat, alph)
    IN epsilon_closure(r.arena, {r.nfa.start_state}) \cap r.arena.final # {}

\* C2: for every pattern that compiles, match(p, "", A) is True exactly when
\* the epsilon-closure of the NFA's start state contains an accepting state.
C2_EmptyMatchIffStartClosureAccepting ==
    (MatchReturned /\ pc = "done" /\ string = <<>>)
        => (result.val <=> StartClosureAccepting(pattern, alphabet))

\* C3: for every literal c of the alphabet, match(c+, "", A) is False and
\* match(c+, s, A) is True for every s of n >= 1 repetitions of c.
C3_PlusAcceptsOneOrMore ==
    \A c \in Literals \cap alphabet :
        (MatchReturned /\ pattern = <<c, "+">> /\ OnlyChar(string, c))
            => (pc = "done" /\ (result.val <=> Len(string) >= 1))

C3_Witness ==
    /\ MatchReturned /\ pc = "done"
    /\ pattern = <<"a", "+">> /\ string = <<"a", "a", "a">>
    /\ result.val = TRUE

\* s with every occurrence of c replaced by r, the other symbols kept
RECURSIVE ReplaceAll(_, _, _)
ReplaceAll(s, c, r) ==
    IF s = <<>> THEN <<>>
    ELSE (IF Head(s) = c THEN r ELSE <<Head(s)>>) \o ReplaceAll(Tail(s), c, r)

Occurrences(s, c) == Cardinality({pos \in 1..Len(s) : s[pos] = c})

\* C4: for a single-literal pattern c in A and a string s over A, sub returns
\* s with every occurrence of c replaced by the replacement and the rest kept
\* in place, findall having yielded exactly one entry "c" per occurrence.
C4_SubLiteralReplacesEveryOccurrence ==
    \A c \in Literals \cap alphabet :
        (pc = "done" /\ call = "sub" /\ pattern = <<c>>
            /\ \A pos \in 1..Len(string) : string[pos] \in alphabet)
        => /\ result.val = ReplaceAll(string, c, repl)
           /\ Len(matches) = Occurrences(string, c)
           /\ \A n \in 1..Len(matches) : matches[n] = <<c>>

C4_Witness ==
    /\ pc = "done" /\ call = "sub"
    /\ pattern = <<"a">> /\ string = <<"a", "a", "a", "b">> /\ repl = <<"x">>
    /\ alphabet = {"a", "b"}
    /\ matches = << <<"a">>, <<"a">>, <<"a">> >>
    /\ result.val = <<"x", "x", "x", "b">>

\* whether some string[ci:cj] matches
MatchesFrom(ci) ==
    \E cj \in (ci + 1)..Len(string) : match(pattern, Slice(string, ci, cj), alphabet).val

\* C5: search returns -1 exactly when findall returns an empty list; otherwise
\* it returns the smallest start index of a matching substring, which is where
\* findall's first entry starts.
C5_SearchAgreesWithFindall ==
    (pc = "done" /\ call = "search") =>
        LET found == findall(pattern, string, alphabet).val
            at == result.val
        IN /\ (at = 0 - 1) <=> (found = <<>>)
           /\ found # <<>> =>
                /\ at \in 0..(Len(string) - 1)
                /\ MatchesFrom(at)
                /\ \A ci \in 0..(at - 1) : ~MatchesFrom(ci)
                /\ found[1] = Slice(string, at, at + Len(found[1]))

C5_Witness ==
    /\ pc = "done" /\ call = "search"
    /\ pattern = <<"b", "+">> /\ string = <<"a", "a", "b", "b">>
    /\ result.val = 2

\* C6: when the pattern compiles and the string holds a symbol outside the
\* alphabet, match returns False and raises nothing.
C6_SymbolOutsideAlphabetRejects ==
    (MatchReturned /\ regex_to_nfa(pattern, alphabet).err = "none"
        /\ \E pos \in 1..Len(string) : string[pos] \notin alphabet)
    => (pc = "done" /\ result.val = FALSE)

C6_Witness ==
    /\ MatchReturned /\ pc = "done"
    /\ alphabet = {"a"} /\ pattern = <<"b">> /\ string = <<"b">>
    /\ result.val = FALSE

\* the number of fragments an operator token takes from the stack
Operands(tok) == IF tok \in {".", "|"} THEN 2 ELSE 1

\* C7: an operator token processed while the stack holds fewer fragments than
\* it requires ends build_nfa with the structural error (ValueError).
C7_MissingOperandsRaiseStructuralError ==
    [][ (/\ pc = "build"
         /\ idx < Len(tokens)
         /\ tokens[idx + 1] \in {".", "|", "*", "+", "?", "^", "$"}
         /\ Len(stack) < Operands(tokens[idx + 1]))
        => (pc' = "error" /\ err' = "ValueError") ]_vars

\* build_nfa is past its loop
LoopOver == pc = "build" /\ idx >= Len(tokens)

\* C8 as stated: after the loop build_nfa raises the structural error unless
\* exactly one fragment remains, so "ab" yields no automaton.
C8_RaisesUnlessOneFragment ==
    [][ LoopOver =>
            IF Len(stack) = 1 THEN pc' = "nfa"
            ELSE (pc' = "error" /\ err' = "ValueError") ]_vars

\* C8 amended: after the loop build_nfa raises the structural error only on an
\* empty stack; otherwise it returns the top fragment, whatever lies below it.
C8_RaisesOnlyOnEmptyStack ==
    [][ LoopOver =>
            IF stack = <<>> THEN (pc' = "error" /\ err' = "ValueError")
            ELSE (pc' = "nfa" /\ nfa' = stack[Len(stack)]) ]_vars

C8_Witness ==
    /\ pc = "nfa"
    /\ pattern = <<"a", "b">>
    /\ Len(stack) = 1
    /\ <<nfa.start_state, <<"b">>, nfa.accept_state>> \in arena.trans

\* the parentheses of pat are balanced
RECURSIVE Depths(_, _)
Depths(pat, d) ==
    IF pat = <<>> THEN d = 0
    ELSE IF Head(pat) = "(" THEN Depths(Tail(pat), d + 1)
    ELSE IF Head(pat) = ")" THEN d > 0 /\ Depths(Tail(pat), d - 1)
    ELSE Depths(Tail(pat), d)

\* a pattern of literals, operators and balanced groups only
BalancedGroups(pat) ==
    /\ \A pos \in 1..Len(pat) : pat[pos] \notin {ESC, "[", "]"}
    /\ Depths(pat, 0)

\* C9: parse_regex returns a token sequence and raises nothing for every
\* pattern, an unmatched ")" included; the "(" of a balanced group is
\* discarded and never emitted.
C9_ParseNeverRaises ==
    [][ pc = "start" =>
            /\ pc' = "build"
            /\ BalancedGroups(pattern) =>
                   \A pos \in 1..Len(tokens') : tokens'[pos] # "(" ]_vars

\* C10: in split and sub every lookup of a findall entry at or after last_end
\* succeeds: start >= last_end, last_end never decreases, and the piece
\* emitted is string[last_end:start].
C10_LookupsSucceedInOrder ==
    [][ (pc = "locate" /\ k < Len(matches)) =>
            /\ start' >= last_end
            /\ last_end' >= last_end
            /\ call = "split" =>
                   acc'[Len(acc')] = SubSeq(string, last_end + 1, start') ]_vars

====
